---- MODULE Spec2Model ----
\* A model of certify: the certificate manager (Certify.GetCertificate,
\* Certify.GetClientCertificate, Certify.getOrRenewCert), the single-flight
\* group it uses, the CertConfig clone/append helpers, and the cache
\* implementations (memCache, DirCache).
\*
\* Strings are sequences of one-character strings, so that the string
\* functions of the code (ToLower, TrimSuffix, Split, ParseIP) are computed,
\* not assumed.
EXTENDS Integers, Sequences, FiniteSets, TLC

\* ------------------------------------------------------------------ bounds

\* Hook calls started in one behaviour.
MaxCalls == 2

\* The clock runs from 0 to MaxTime.
MaxTime == 1

\* Certify.RenewBefore, in clock ticks.
RenewBefore == 1

\* Goroutines calling the hooks.
Procs == {1, 2}

\* Lifetimes the issuer gives a leaf: with RenewBefore the leaf is inside
\* the renewal window at once, with one more it is outside it for one tick.
TTLs == {RenewBefore, RenewBefore + 1}

\* ----------------------------------------------------------------- strings

Empty == <<>>

CommonName == <<"c", "n">>

NameX == <<"x">>

NameIP == <<"8", ".", "8", ".", "8", ".", "8">>

\* ClientHelloInfo.ServerName values the server-side hook is called with.
RawNames ==
    { Empty,
      <<"a", "/", "b">>,
      <<"a", "\\", "b">>,
      <<"X">>,
      <<"x", ".">>,
      <<"C", "N">>,
      NameIP }

\* CertificateRequestInfo values the client-side hook is called with: the
\* hook reads none of its fields, so two distinguishable values suffice.
CertRequests == {"criA", "criB"}

LowerChar(c) ==
    CASE c = "X" -> "x"
      [] c = "C" -> "c"
      [] c = "N" -> "n"
      [] c = "A" -> "a"
      [] c = "H" -> "h"
      [] OTHER -> c

ToLower(s) == [i \in 1..Len(s) |-> LowerChar(s[i])]

ContainsAny(s, chars) == \E i \in 1..Len(s) : s[i] \in chars

TrimSuffixDot(s) ==
    IF Len(s) >= 1 /\ s[Len(s)] = "." THEN SubSeq(s, 1, Len(s) - 1) ELSE s

\* strings.Split(s, ":")[0]: the part before the first ":".
BeforeColon(s) ==
    IF \E i \in 1..Len(s) : s[i] = ":"
    THEN LET first == CHOOSE i \in 1..Len(s) :
                          /\ s[i] = ":"
                          /\ \A j \in 1..(i - 1) : s[j] # ":"
         IN SubSeq(s, 1, first - 1)
    ELSE s

Digits == {"0", "1", "2", "3", "4", "5", "6", "7", "8", "9"}

DigitVal(c) ==
    CASE c = "0" -> 0 [] c = "1" -> 1 [] c = "2" -> 2 [] c = "3" -> 3
      [] c = "4" -> 4 [] c = "5" -> 5 [] c = "6" -> 6 [] c = "7" -> 7
      [] c = "8" -> 8 [] c = "9" -> 9 [] OTHER -> 0

\* Positions of the dots of s, in order.
DotsOf(s) == {i \in 1..Len(s) : s[i] = "."}

\* One field of a dotted quad: 1 to 3 digits, no leading zero, at most 255.
IsOctet(f) ==
    /\ Len(f) \in 1..3
    /\ \A i \in 1..Len(f) : f[i] \in Digits
    /\ (Len(f) > 1 => f[1] # "0")
    /\ (Len(f) = 3 =>
          100 * DigitVal(f[1]) + 10 * DigitVal(f[2]) + DigitVal(f[3]) <= 255)

\* net.ParseIP restricted to dotted-quad IPv4: TRUE when s parses as an IP.
\* (A name with ":" never reaches appendName from the server-side hook.)
IsIP(s) ==
    /\ Cardinality(DotsOf(s)) = 3
    /\ LET d1 == CHOOSE i \in DotsOf(s) : \A j \in DotsOf(s) : i <= j
           d3 == CHOOSE i \in DotsOf(s) : \A j \in DotsOf(s) : i >= j
           d2 == CHOOSE i \in DotsOf(s) : i # d1 /\ i # d3
       IN /\ IsOctet(SubSeq(s, 1, d1 - 1))
          /\ IsOctet(SubSeq(s, d1 + 1, d2 - 1))
          /\ IsOctet(SubSeq(s, d2 + 1, d3 - 1))
          /\ IsOctet(SubSeq(s, d3 + 1, Len(s)))

\* GetCertificate testing for the empty name only.
ServerNameErrorEmptyOnly(lower) ==
    IF lower = Empty THEN "missing server name" ELSE ""

\* GetCertificate's checks on the lower-cased name: "" when it is accepted,
\* the error otherwise.
ServerNameError(lower) ==
    IF lower = Empty THEN "missing server name"
    ELSE IF ContainsAny(lower, {"/", "\\"}) THEN "server name contains invalid character"
    ELSE ""

\* GetCertificate's normalization of an accepted name.
NormalizeServerName(raw) == BeforeColon(TrimSuffixDot(ToLower(raw)))

\* The client hook taking its identity from the request.
ClientIdentityFromRequest(cri) == IF cri = "criA" THEN NameX ELSE CommonName

\* The identity GetClientCertificate passes to getOrRenewCert.
ClientIdentity(cri) == CommonName

\* The identities of the model: what the hooks pass to getOrRenewCert.
Names ==
    {NormalizeServerName(r) : r \in {x \in RawNames : ServerNameError(ToLower(x)) = ""}}
        \cup {CommonName}

\* ------------------------------------------------------------ CertConfig

\* The CertConfig the caller supplies: SubjectAlternativeNames, the spare
\* capacity (cap - len) of its SAN slices, and KeyGenerator.
CallerConfigs ==
    { [dns |-> Empty, spare |-> 0, keyGen |-> "nil"],
      [dns |-> <<NameX>>, spare |-> 0, keyGen |-> "nil"],
      [dns |-> <<NameX>>, spare |-> 2, keyGen |-> "custom"] }

\* A Go slice over the caller's backing array (shared) or over an array of
\* its own: the elements it shows.
SliceView(arr, s) == IF s.shared THEN SubSeq(arr, 1, s.len) ELSE s.own

\* Go's append(s, v): in place when the backing array has room, into a fresh
\* array otherwise. The slice it returns.
AppendSlice(arr, s, v) ==
    IF s.shared /\ s.len < Len(arr)
    THEN [s EXCEPT !.len = @ + 1]
    ELSE [shared |-> FALSE, len |-> s.len + 1, own |-> Append(SliceView(arr, s), v)]

\* The backing array after append(s, v).
AppendArray(arr, s, v) ==
    IF s.shared /\ s.len < Len(arr)
    THEN [arr EXCEPT ![s.len + 1] = v]
    ELSE arr

\* CertConfig.Clone: the slice headers are copied, the arrays are shared.
CloneSlice(n) == [shared |-> TRUE, len |-> n, own |-> Empty]

\* init installing the default generator whatever the caller configured.
InitKeyGenAlways(kg) == "singleton"

\* Certify.init on the caller's CertConfig.
InitKeyGen(kg) == IF kg = "nil" THEN "singleton" ELSE kg

\* ------------------------------------------------------------------ state

VARIABLES
    now,        \* the clock
    cfg,        \* Certify.CertConfig: [dnsLen, ipLen, keyGen]
    dnsArr,     \* backing array of CertConfig.SubjectAlternativeNames
    ipArr,      \* backing array of CertConfig.IPSubjectAlternativeNames
    cache,      \* Certify.Cache: identity -> the stored bundle, NoCert = none
    group,      \* Certify.issueGroup: key -> the call in flight
    callers,    \* the goroutines inside the hooks
    issued,     \* identity -> Issuer.Issue calls made for it so far
    calls,      \* hook calls started so far
    lastRet     \* what the latest hook call to return returned

mgrVars == <<now, cfg, dnsArr, ipArr, cache, group, callers, issued, calls, lastRet>>

\* The cache implementations, driven directly by their clients.
VARIABLES
    memCache,   \* memCache.cache: key -> bundle, "" = no entry
    dirFiles,   \* DirCache: key -> the contents of <key>.key and <key>.crt
    dirTemps,   \* DirCache: temporary files in the directory
    ops,        \* per client: its cache call and the goroutine the call started
    settled,    \* implementation -> key -> what the finished calls say it holds
    nops        \* cache calls started so far

cacheVars == <<memCache, dirFiles, dirTemps, ops, settled, nops>>

\* One run of GetCertificate's name handling, statement by statement.
VARIABLES
    hello,      \* ClientHelloInfo.ServerName
    ident,      \* GetCertificate's local variable name
    line        \* the statement GetCertificate is at

nameVars == <<hello, ident, line>>

\* One Issue call of an issuer backend, from its signing request on.
VARIABLES
    reply,      \* what the backend answered
    tlsCert     \* the bundle Issue builds from it, and the line Issue is at

chainVars == <<reply, tlsCert>>

\* The default key generator and the goroutines calling Generate on it.
VARIABLES
    sk,         \* the singletonKey: key, err and its sync.Once
    gens,       \* each goroutine's position in Generate and what it returned
    made        \* the number of keys ecdsa.GenerateKey has made

keyVars == <<sk, gens, made>>

\* One issuer instance and the goroutines calling Issue on it.
VARIABLES
    inst,       \* the instance: its backend, its client, the connects made
    issuers     \* each goroutine's position in Issue

instVars == <<inst, issuers>>

\* One RenewingToken, its renewal goroutine, the goroutines calling
\* SetToken with one api.Client, and that client's token.
VARIABLES
    rt,         \* the RenewingToken: o, token, cancel, and the context cancel ends
    task,       \* the renewal goroutine
    setters,    \* each goroutine's position in SetToken and what it returned
    cliToken    \* the token set on the client

tokVars == <<rt, task, setters, cliToken>>

\* The state outside the manager, the caches and the server name.
extVars == <<chainVars, keyVars, instVars, tokVars>>

notChainVars == <<mgrVars, cacheVars, nameVars, keyVars, instVars, tokVars>>

notKeyVars == <<mgrVars, cacheVars, nameVars, chainVars, instVars, tokVars>>

notInstVars == <<mgrVars, cacheVars, nameVars, chainVars, keyVars, tokVars>>

notTokVars == <<mgrVars, cacheVars, nameVars, chainVars, keyVars, instVars>>

\* A bundle: the leaf's serial number and NotAfter, and the SANs of the
\* CertConfig the issuer made it from.
NoCert == [serial |-> 0, notAfter |-> 0, dns |-> Empty, ips |-> Empty]

\* singleflight.Result, and whether the closure's Cache.Put stored the bundle.
NoResult == [kind |-> "none", cert |-> NoCert, err |-> "", put |-> "none"]

NoReturn ==
    [name |-> Empty, kind |-> "none", cert |-> NoCert, err |-> "", src |-> "", put |-> "none"]

NoCall ==
    [pc |-> "none", name |-> Empty, owner |-> 0,
     dns |-> CloneSlice(0), ips |-> CloneSlice(0),
     cert |-> NoCert, err |-> "", put |-> "none", chans |-> {}]

IdleCaller ==
    [pc |-> "idle", name |-> Empty, hook |-> "", cancelled |-> FALSE,
     peer |-> 0, after |-> 0, ch |-> NoResult]

\* The constant key of the earlier getOrRenewCert: DoChan("issue", ...).
FlightKeyLegacy(name) == <<"i", "s", "s", "u", "e">>

\* The key getOrRenewCert gives singleflight.Group.DoChan.
FlightKey(name) == name

\* The keys issueGroup can hold.
Keys == {FlightKey(n) : n \in Names}

\* The renewal test with its comparison turned round.
RenewalTestReversed(t, notAfter) == t >= notAfter - RenewBefore

\* The renewal test with RenewBefore left out.
RenewalTestWithoutWindow(t, notAfter) == t < notAfter

\* The renewal test with RenewBefore added instead of subtracted.
RenewalTestWindowAdded(t, notAfter) == t < notAfter + RenewBefore

\* time.Now().Before(cert.Leaf.NotAfter.Add(-c.RenewBefore))
NotDueForRenewal(t, notAfter) == t < notAfter - RenewBefore

\* A context whose Done channel is never closed.
CtxNeverDone(p) == FALSE

\* ctx.Done() of the context getOrRenewCert derives for caller p: closed
\* once the IssueTimeout deadline fired or the handshake's context ended.
CtxDone(p) == callers[p].cancelled

\* A flight's context ending with the context of any caller joined to it.
FlightCtxDoneWithJoiners(f) ==
    \/ f.owner = 0
    \/ \E p \in f.chans \cup {f.owner} : CtxDone(p)

\* ctx.Done() of the context a flight's closure captured: its creator's,
\* which the creator's deferred cancel() closes when it returns.
FlightCtxDone(f) == IF f.owner = 0 THEN TRUE ELSE CtxDone(f.owner)

\* The manager after construction over a cache that holds stored.
InitManagerWith(stored) ==
    /\ now = 0
    /\ \E c \in CallerConfigs :
          /\ cfg = [dnsLen |-> Len(c.dns), ipLen |-> 0, keyGen |-> c.keyGen]
          /\ dnsArr = c.dns \o [i \in 1..c.spare |-> Empty]
          /\ ipArr = [i \in 1..c.spare |-> Empty]
    /\ cache = stored
    /\ group = [k \in Keys |-> NoCall]
    /\ callers = [p \in Procs |-> IdleCaller]
    /\ issued = [n \in Names |-> 0]
    /\ calls = 0
    /\ lastRet = NoReturn

\* The manager after construction over an empty cache.
InitManager == InitManagerWith([n \in Names |-> NoCert])

\* A cache kept from an earlier run of the program (a DirCache directory):
\* under identity NameX a bundle that is inside its renewal window by now.
StoredBefore ==
    [n \in Names |->
        IF n = NameX
        THEN [serial |-> -1, notAfter |-> RenewBefore, dns |-> Empty, ips |-> Empty]
        ELSE NoCert]

\* --------------------------------------------------------------- the hooks

\* The caller returns: deferred cancel() ends its context, and nobody reads
\* the channel it was given.
Return(p, kind, cert, err, src) ==
    /\ callers' = [callers EXCEPT ![p] = IdleCaller]
    /\ lastRet' = [name |-> callers[p].name, kind |-> kind, cert |-> cert,
                   err |-> err, src |-> src,
                   put |-> IF src = "flight" THEN callers[p].ch.put ELSE "none"]
    /\ group' = [k \in Keys |->
          IF group[k].pc = "none" THEN group[k]
          ELSE [group[k] EXCEPT !.owner = IF @ = p THEN 0 ELSE @, !.chans = @ \ {p}]]

\* Serials of the Issue calls made for identity name by a flight whose
\* creator is still inside its hook call.
LiveIssues(name) ==
    {group[k].cert.serial :
        k \in {j \in Keys : /\ group[j].pc \in {"issuing", "put", "complete"}
                            /\ group[j].name = name
                            /\ group[j].owner # 0}}

\* The serial of the bundle the hook call before this one returned, when
\* that call was for the same identity, got its bundle from the issuer and
\* stored it, and neither a hook call nor a flight for the identity is in
\* progress; 0 otherwise.
PreviousIssue(name) ==
    IF /\ \A q \in Procs : callers[q].pc = "idle"
       /\ \A k \in Keys : group[k].name # name
       /\ lastRet.kind = "cert" /\ lastRet.src = "flight" /\ lastRet.put = "ok"
       /\ lastRet.name = name
    THEN lastRet.cert.serial
    ELSE 0

\* getOrRenewCert's first line: the per-call context. Two notes are kept
\* with the call: peer, an Issue call made for the same identity on behalf
\* of a hook call concurrent with this one (0: none); after, the bundle
\* the preceding call returned while this call runs alone (0: not so).
Enter(p, name, hook) ==
    callers' = [q \in Procs |->
        IF q = p
        THEN [IdleCaller EXCEPT !.pc = "get", !.name = name, !.hook = hook,
                                !.peer = IF LiveIssues(name) = {} THEN 0
                                         ELSE CHOOSE i \in LiveIssues(name) : TRUE,
                                !.after = PreviousIssue(name)]
        ELSE [callers[q] EXCEPT !.after = 0]]

GetCertificate(p, raw) ==
    /\ callers[p].pc = "idle"
    /\ calls < MaxCalls
    /\ calls' = calls + 1
    /\ cfg' = [cfg EXCEPT !.keyGen = InitKeyGen(@)]
    /\ LET lower == ToLower(raw)
           bad == ServerNameError(lower)
       IN IF bad # ""
          THEN /\ lastRet' = [name |-> Empty, kind |-> "err", cert |-> NoCert,
                              err |-> bad, src |-> "hook", put |-> "none"]
               /\ UNCHANGED callers
          ELSE /\ Enter(p, NormalizeServerName(raw), "server")
               /\ UNCHANGED lastRet
    /\ UNCHANGED <<now, dnsArr, ipArr, cache, group, issued, cacheVars, nameVars, extVars>>

GetClientCertificate(p, cri) ==
    /\ callers[p].pc = "idle"
    /\ calls < MaxCalls
    /\ calls' = calls + 1
    /\ cfg' = [cfg EXCEPT !.keyGen = InitKeyGen(@)]
    /\ Enter(p, ClientIdentity(cri), "client")
    /\ UNCHANGED <<now, dnsArr, ipArr, cache, group, issued, lastRet, cacheVars, nameVars, extVars>>

\* The errors Cache.Get can return for a cache holding hit under the key:
\* nil ("") on a hit, ErrCacheMiss when there is no entry, and any other
\* error at any time.
GetErrors(hit) == IF hit = NoCert THEN {"miss", "cache"} ELSE {"", "cache"}

\* A Get error that is never returned to the caller.
GetErrorNeverFatal(err) == FALSE

\* else if err != ErrCacheMiss { return nil, err }
GetErrorFatal(err) == err # "miss"

\* cert, err := c.Cache.Get(ctx, name) returning err, the renewal test on a
\* hit, and the test of the error otherwise.
CacheGetReturning(p, err) ==
    /\ callers[p].pc = "get"
    /\ LET hit == cache[callers[p].name]
       IN /\ err \in GetErrors(hit)
          /\ IF err = ""
             THEN IF NotDueForRenewal(now, hit.notAfter)
                  THEN Return(p, "cert", hit, "", "cache")
                  ELSE /\ callers' = [callers EXCEPT ![p].pc = "delete"]
                       /\ UNCHANGED <<group, lastRet>>
             ELSE IF GetErrorFatal(err)
                  THEN Return(p, "err", NoCert, err, "cacheErr")
                  ELSE /\ callers' = [callers EXCEPT ![p].pc = "dochan"]
                       /\ UNCHANGED <<group, lastRet>>
    /\ UNCHANGED <<now, cfg, dnsArr, ipArr, cache, issued, calls, cacheVars, nameVars, extVars>>

CacheGet(p) == \E err \in {"", "miss", "cache"} : CacheGetReturning(p, err)

\* _ = c.Cache.Delete(ctx, name): the error, if any, is dropped.
CacheDelete(p) ==
    /\ callers[p].pc = "delete"
    /\ \/ cache' = [cache EXCEPT ![callers[p].name] = NoCert]
       \/ UNCHANGED cache
    /\ callers' = [callers EXCEPT ![p].pc = "dochan"]
    /\ UNCHANGED <<now, cfg, dnsArr, ipArr, group, issued, calls, lastRet, cacheVars, nameVars, extVars>>

\* c.issueGroup.DoChan(name, fn): join the call in flight for the key, or
\* start one that runs fn in a goroutine of its own.
DoChan(p) ==
    /\ callers[p].pc = "dochan"
    /\ LET k == FlightKey(callers[p].name)
       IN IF group[k].pc = "none"
          THEN group' = [group EXCEPT ![k] =
                  [NoCall EXCEPT !.pc = "clone", !.name = callers[p].name,
                                 !.owner = p, !.chans = {p}]]
          ELSE group' = [group EXCEPT ![k].chans = @ \cup {p}]
    /\ callers' = [callers EXCEPT ![p].pc = "wait"]
    /\ UNCHANGED <<now, cfg, dnsArr, ipArr, cache, issued, calls, lastRet, cacheVars, nameVars, extVars>>

\* The select at the end of getOrRenewCert.
Select(p) ==
    /\ callers[p].pc = "wait"
    /\ \/ /\ CtxDone(p)
          /\ Return(p, "err", NoCert, "ctx", "ctx")
       \/ /\ callers[p].ch.kind = "cert"
          /\ Return(p, "cert", callers[p].ch.cert, "", "flight")
       \/ /\ callers[p].ch.kind = "err"
          /\ Return(p, "err", NoCert, callers[p].ch.err, "flight")
    /\ UNCHANGED <<now, cfg, dnsArr, ipArr, cache, issued, calls, cacheVars, nameVars, extVars>>

\* The caller's context ends: the IssueTimeout deadline fires, or the
\* handshake's own context is cancelled or reaches its deadline.
CtxEnd(p) ==
    /\ callers[p].pc # "idle"
    /\ ~callers[p].cancelled
    /\ callers' = [callers EXCEPT ![p].cancelled = TRUE]
    /\ UNCHANGED <<now, cfg, dnsArr, ipArr, cache, group, issued, calls, lastRet, cacheVars, nameVars, extVars>>

Tick ==
    /\ now < MaxTime
    /\ now' = now + 1
    /\ UNCHANGED <<cfg, dnsArr, ipArr, cache, group, callers, issued, calls, lastRet, cacheVars, nameVars, extVars>>

\* -------------------------------------------- the closure given to DoChan

\* CertConfig.appendName on conf, the flight's clone.
AppendName(k, conf, name, nextPc) ==
    IF IsIP(name)
    THEN /\ group' = [group EXCEPT ![k] =
                [conf EXCEPT !.pc = nextPc, !.ips = AppendSlice(ipArr, conf.ips, name)]]
         /\ ipArr' = AppendArray(ipArr, conf.ips, name)
         /\ UNCHANGED dnsArr
    ELSE /\ group' = [group EXCEPT ![k] =
                [conf EXCEPT !.pc = nextPc, !.dns = AppendSlice(dnsArr, conf.dns, name)]]
         /\ dnsArr' = AppendArray(dnsArr, conf.dns, name)
         /\ UNCHANGED ipArr

\* conf := c.CertConfig.Clone(); conf.appendName(name)
\* (Clone reads only the slice headers of the caller's config, which no
\* step changes, so it is one step with the first append.)
FlightAppendName(k) ==
    /\ group[k].pc = "clone"
    /\ AppendName(k, [group[k] EXCEPT !.dns = CloneSlice(cfg.dnsLen),
                                      !.ips = CloneSlice(cfg.ipLen)],
                  group[k].name,
                  IF group[k].name # CommonName THEN "appendCN" ELSE "issue")
    /\ UNCHANGED <<now, cfg, cache, callers, issued, calls, lastRet, cacheVars, nameVars, extVars>>

\* if name != c.CommonName { conf.appendName(c.CommonName) }
FlightAppendCN(k) ==
    /\ group[k].pc = "appendCN"
    /\ AppendName(k, group[k], CommonName, "issue")
    /\ UNCHANGED <<now, cfg, cache, callers, issued, calls, lastRet, cacheVars, nameVars, extVars>>

\* c.Issuer.Issue(ctx, c.CommonName, conf) is called: the issuer reads conf.
\* (cert holds the SANs it read; conf is not used again.)
IssueStart(k) ==
    /\ group[k].pc = "issue"
    /\ issued' = [issued EXCEPT ![group[k].name] = @ + 1]
    /\ group' = [group EXCEPT ![k] =
          [@ EXCEPT !.pc = "issuing", !.dns = CloneSlice(0), !.ips = CloneSlice(0),
                    !.cert = [serial |-> issued[group[k].name] + 1, notAfter |-> 0,
                              dns |-> SliceView(dnsArr, group[k].dns),
                              ips |-> SliceView(ipArr, group[k].ips)]]]
    /\ callers' = [p \in Procs |->
          IF /\ callers[p].pc # "idle"
             /\ callers[p].name = group[k].name
             /\ group[k].owner \notin {0, p}
          THEN [callers[p] EXCEPT !.peer = issued[group[k].name] + 1]
          ELSE callers[p]]
    /\ UNCHANGED <<now, cfg, dnsArr, ipArr, cache, calls, lastRet, cacheVars, nameVars, extVars>>

\* Issue returns a bundle whose leaf expires ttl ticks from now.
IssueOk(k, ttl) ==
    /\ group[k].pc = "issuing"
    /\ group' = [group EXCEPT ![k] = [@ EXCEPT !.pc = "put", !.cert.notAfter = now + ttl]]
    /\ UNCHANGED <<now, cfg, dnsArr, ipArr, cache, callers, issued, calls, lastRet, cacheVars, nameVars, extVars>>

\* The closure going on to Cache.Put after a failed Issue.
AfterIssueErrorPut == "put"

\* if err != nil { return nil, err }: after a failed Issue the closure
\* returns at once.
AfterIssueError == "complete"

\* Issue returns an error: the issuer's own, or the context's once it is done.
IssueErr(k, e) ==
    /\ group[k].pc = "issuing"
    /\ (e = "ctx" => FlightCtxDone(group[k]))
    /\ group' = [group EXCEPT ![k] = [@ EXCEPT !.pc = AfterIssueError, !.err = e, !.cert = NoCert]]
    /\ UNCHANGED <<now, cfg, dnsArr, ipArr, cache, callers, issued, calls, lastRet, cacheVars, nameVars, extVars>>

\* The closure returning Cache.Put's error.
PutErrorSurfaced(outcome) == IF outcome = "ok" THEN "" ELSE "cache"

\* The error the closure returns after Cache.Put: the put's error is logged,
\* and the closure ends with return cert, nil.
PutErrorReturned(outcome) == ""

\* c.Cache.Put(ctx, name, cert): its error is logged and dropped. A failed
\* put may also have removed the entry (DirCache removes the final files).
FlightPut(k, outcome) ==
    /\ group[k].pc = "put"
    /\ CASE outcome = "ok" -> cache' = [cache EXCEPT ![group[k].name] = group[k].cert]
         [] outcome = "failed" -> UNCHANGED cache
         [] outcome = "removed" -> cache' = [cache EXCEPT ![group[k].name] = NoCert]
    /\ group' = [group EXCEPT ![k] = [@ EXCEPT !.pc = "complete", !.put = outcome,
                                               !.err = PutErrorReturned(outcome)]]
    /\ UNCHANGED <<now, cfg, dnsArr, ipArr, callers, issued, calls, lastRet, cacheVars, nameVars, extVars>>

\* A group that keeps a finished call under its key.
ForgetKeepsCall(c) == [c EXCEPT !.chans = {}]

\* The group's entry for a key once its call has finished: doCall deletes
\* the key before it sends the result.
Forget(c) == NoCall

\* singleflight's doCall after fn returned: the key is forgotten and the
\* result is sent to every channel of the call, under the group's mutex.
FlightComplete(k) ==
    /\ group[k].pc = "complete"
    /\ callers' = [p \in Procs |->
          IF p \in group[k].chans
          THEN [callers[p] EXCEPT !.ch =
                   IF group[k].err = ""
                   THEN [kind |-> "cert", cert |-> group[k].cert, err |-> "",
                         put |-> group[k].put]
                   ELSE [kind |-> "err", cert |-> NoCert, err |-> group[k].err,
                         put |-> "none"]]
          ELSE callers[p]]
    /\ group' = [group EXCEPT ![k] = Forget(group[k])]
    /\ UNCHANGED <<now, cfg, dnsArr, ipArr, cache, issued, calls, lastRet, cacheVars, nameVars, extVars>>

\* ------------------------------------------------ the Cache implementations

MaxOps == 3

Clients == {1, 2}

CacheKeys == {"k1"}

Bundles == {"v1", "v2"}

\* A bundle whose PrivateKey is of a type keys.Marshal does not encode.
BadKeyBundle == "vbad"

Impls == {"mem", "dir"}

NoFile == ""

\* A client's cache call: the implementation and the arguments, whether its
\* context is done, where the caller and the goroutine of the call are, the
\* goroutine's err, the certificate file it read and whether it set
\* cert.Leaf, and what the call returned. Two notes are kept with the call: expect, what the key was
\* known to hold when the call began, "unknown" once a put or delete on the
\* key runs beside it; alone, that no put or delete on the key has run
\* beside it.
NoOp ==
    [impl |-> "", kind |-> "", key |-> "", val |-> "", ctx |-> FALSE,
     caller |-> "idle", go |-> "none", err |-> "", read |-> NoFile, leaf |-> FALSE,
     expect |-> "unknown", alone |-> FALSE, ret |-> ""]

InitCache ==
    /\ memCache = [k \in CacheKeys |-> NoFile]
    /\ dirFiles = [k \in CacheKeys |-> [key |-> NoFile, crt |-> NoFile]]
    /\ dirTemps = 0
    /\ ops = [c \in Clients |-> NoOp]
    /\ settled = [i \in Impls |-> [k \in CacheKeys |-> "never"]]
    /\ nops = 0

\* The call of client c, or the goroutine it started, is still running.
Busy(c) == ops[c].caller = "wait" \/ ops[c].go \notin {"none", "done"}

Writes(kind) == kind \in {"put", "delete"}

Writing(d, impl, k) ==
    Busy(d) /\ ops[d].impl = impl /\ ops[d].key = k /\ Writes(ops[d].kind)

\* Client c calls kind(ctx, k, v) on implementation impl.
StartOp(c, impl, kind, k, v, caller, go, ret) ==
    /\ ~Busy(c)
    /\ nops < MaxOps
    /\ nops' = nops + 1
    /\ ops' = [d \in Clients |->
          IF d = c
          THEN [NoOp EXCEPT !.impl = impl, !.kind = kind,
                            !.key = k, !.val = v, !.caller = caller, !.go = go,
                            !.expect = settled[impl][k],
                            !.alone = \A e \in Clients \ {c} : ~Writing(e, impl, k),
                            !.ret = ret]
          ELSE IF Writes(kind) /\ Busy(d) /\ ops[d].impl = impl /\ ops[d].key = k
               THEN [ops[d] EXCEPT !.expect = "unknown", !.alone = FALSE]
               ELSE ops[d]]

\* What key k is known to hold once a put or delete that ran alone returned nil.
SettleAfter(op) ==
    CASE op.kind = "put" -> op.val
      [] op.kind = "delete" /\ op.expect \in Bundles -> "deleted"
      [] op.kind = "delete" /\ op.expect \in {"never", "deleted"} -> op.expect
      [] OTHER -> "unknown"

\* memCache.Get, under the read lock.
MemGet(c, k) ==
    /\ StartOp(c, "mem", "get", k, "", "idle", "none",
               IF memCache[k] = NoFile THEN "miss" ELSE memCache[k])
    /\ UNCHANGED <<memCache, dirFiles, dirTemps, settled, mgrVars, nameVars, extVars>>

\* memCache.Put, under the lock.
MemPut(c, k, v) ==
    /\ StartOp(c, "mem", "put", k, v, "idle", "none", "ok")
    /\ memCache' = [memCache EXCEPT ![k] = v]
    /\ settled' = [settled EXCEPT !["mem"][k] = v]
    /\ UNCHANGED <<dirFiles, dirTemps, mgrVars, nameVars, extVars>>

\* memCache.Delete, under the lock.
MemDelete(c, k) ==
    /\ StartOp(c, "mem", "delete", k, "", "idle", "none", "ok")
    /\ memCache' = [memCache EXCEPT ![k] = NoFile]
    /\ settled' = [settled EXCEPT !["mem"][k] =
          SettleAfter([kind |-> "delete", val |-> "", expect |-> settled["mem"][k]])]
    /\ UNCHANGED <<dirFiles, dirTemps, mgrVars, nameVars, extVars>>

\* DirCache.Get, Put or Delete up to its go statement.
DirCall(c, kind, k, v) ==
    /\ StartOp(c, "dir", kind, k, v, "wait",
               CASE kind = "get" -> "readCert"
                 [] kind = "put" -> "writeTempKey"
                 [] kind = "delete" -> "removeKey",
               "")
    /\ settled' = IF Writes(kind) THEN [settled EXCEPT !["dir"][k] = "unknown"]
                  ELSE settled
    /\ UNCHANGED <<memCache, dirFiles, dirTemps, mgrVars, nameVars, extVars>>

\* The context given to the call of client c is cancelled or times out.
DirCancel(c) ==
    /\ ops[c].caller = "wait"
    /\ ~ops[c].ctx
    /\ ops' = [ops EXCEPT ![c].ctx = TRUE]
    /\ UNCHANGED <<memCache, dirFiles, dirTemps, settled, nops, mgrVars, nameVars, extVars>>

\* os.Remove on a file with the given contents.
OsRemove(content) == IF content = NoFile THEN "notexist" ELSE ""

\* removeWrapErr with the os.IsNotExist test left out.
RemoveWrapErrStrict(e, err) == IF e # "" THEN "remove" ELSE err

\* removeWrapErr: what it returns for os.Remove's error e and the error so far.
RemoveWrapErr(e, err) == IF e # "" /\ e # "notexist" THEN "remove" ELSE err

\* tls.LoadX509KeyPair reads the certificate file.
GetReadCert(c) ==
    /\ ops[c].go = "readCert"
    /\ LET crt == dirFiles[ops[c].key].crt
       IN ops' = [ops EXCEPT ![c] =
             IF crt = NoFile
             THEN [@ EXCEPT !.go = "done", !.err = "notexist"]
             ELSE [@ EXCEPT !.go = "readKey", !.read = crt]]
    /\ UNCHANGED <<memCache, dirFiles, dirTemps, settled, nops, mgrVars, nameVars, extVars>>

\* if err == nil { leaf, err = x509.ParseCertificate(cert.Certificate[0]);
\* if err == nil { cert.Leaf = leaf } }: the certificate LoadX509KeyPair has
\* just parsed parses again.
LeafParsed(err) == err = ""

\* tls.LoadX509KeyPair reads the key file and pairs it with the
\* certificate; the leaf is parsed when that succeeded.
GetReadKey(c) ==
    /\ ops[c].go = "readKey"
    /\ LET key == dirFiles[ops[c].key].key
           err == IF key = NoFile THEN "notexist"
                  ELSE IF key # ops[c].read THEN "mismatch"
                  ELSE ""
       IN ops' = [ops EXCEPT ![c] =
             [@ EXCEPT !.go = "done", !.err = err, !.leaf = LeafParsed(err)]]
    /\ UNCHANGED <<memCache, dirFiles, dirTemps, settled, nops, mgrVars, nameVars, extVars>>

\* writeTempKey: keys.Marshal, then the temporary key file.
PutWriteTempKey(c) ==
    /\ ops[c].go = "writeTempKey"
    /\ IF ops[c].val = BadKeyBundle
       THEN /\ ops' = [ops EXCEPT ![c] = [@ EXCEPT !.go = "done", !.err = "marshal"]]
            /\ UNCHANGED dirTemps
       ELSE /\ ops' = [ops EXCEPT ![c].go = "writeTempCert"]
            /\ dirTemps' = dirTemps + 1
    /\ UNCHANGED <<memCache, dirFiles, settled, nops, mgrVars, nameVars, extVars>>

\* writeTempCert: the temporary certificate file. When it fails (TempFile,
\* pem.Encode or Close), writeTempFiles returns "", "", err and the
\* temporary key file stays where it is.
PutWriteTempCert(c) ==
    /\ ops[c].go = "writeTempCert"
    /\ \/ /\ ops' = [ops EXCEPT ![c].go = "select"]
          /\ dirTemps' = dirTemps + 1
       \/ /\ ops' = [ops EXCEPT ![c] = [@ EXCEPT !.go = "done", !.err = "write"]]
          /\ UNCHANGED dirTemps
    /\ UNCHANGED <<memCache, dirFiles, settled, nops, mgrVars, nameVars, extVars>>

\* The goroutine's select: no rename once the context is done, and err
\* stays nil.
PutSelect(c) ==
    /\ ops[c].go = "select"
    /\ ops' = [ops EXCEPT ![c].go = IF ops[c].ctx THEN "done" ELSE "renameKey"]
    /\ UNCHANGED <<memCache, dirFiles, dirTemps, settled, nops, mgrVars, nameVars, extVars>>

\* os.Rename(tmpKey, newName+keyExt), which may fail.
PutRenameKey(c) ==
    /\ ops[c].go = "renameKey"
    /\ \/ /\ dirFiles' = [dirFiles EXCEPT ![ops[c].key].key = ops[c].val]
          /\ dirTemps' = dirTemps - 1
          /\ ops' = [ops EXCEPT ![c].go = "renameCert"]
       \/ /\ ops' = [ops EXCEPT ![c] = [@ EXCEPT !.go = "done", !.err = "rename"]]
          /\ UNCHANGED <<dirFiles, dirTemps>>
    /\ UNCHANGED <<memCache, settled, nops, mgrVars, nameVars, extVars>>

\* os.Rename(tmpCert, newName+certExt), which may fail.
PutRenameCert(c) ==
    /\ ops[c].go = "renameCert"
    /\ \/ /\ dirFiles' = [dirFiles EXCEPT ![ops[c].key].crt = ops[c].val]
          /\ dirTemps' = dirTemps - 1
          /\ ops' = [ops EXCEPT ![c].go = "done"]
       \/ /\ ops' = [ops EXCEPT ![c] = [@ EXCEPT !.go = "done", !.err = "rename"]]
          /\ UNCHANGED <<dirFiles, dirTemps>>
    /\ UNCHANGED <<memCache, settled, nops, mgrVars, nameVars, extVars>>

\* Delete's goroutine: removeWrapErr(name+keyExt, err)
DeleteRemoveKey(c) ==
    /\ ops[c].go = "removeKey"
    /\ ops' = [ops EXCEPT ![c] =
          [@ EXCEPT !.go = "removeCert",
                    !.err = RemoveWrapErr(OsRemove(dirFiles[ops[c].key].key), @)]]
    /\ dirFiles' = [dirFiles EXCEPT ![ops[c].key].key = NoFile]
    /\ UNCHANGED <<memCache, dirTemps, settled, nops, mgrVars, nameVars, extVars>>

\* Delete's goroutine: removeWrapErr(name+certExt, err)
DeleteRemoveCert(c) ==
    /\ ops[c].go = "removeCert"
    /\ ops' = [ops EXCEPT ![c] =
          [@ EXCEPT !.go = "done",
                    !.err = RemoveWrapErr(OsRemove(dirFiles[ops[c].key].crt), @)]]
    /\ dirFiles' = [dirFiles EXCEPT ![ops[c].key].crt = NoFile]
    /\ UNCHANGED <<memCache, dirTemps, settled, nops, mgrVars, nameVars, extVars>>

\* Get returning a not-exist error as it is.
DirResultWithoutMiss(op) ==
    CASE op.kind = "get" -> IF op.err # "" THEN "err" ELSE op.read
      [] OTHER -> IF op.err # "" THEN "err" ELSE "ok"

\* What the call returns once its goroutine has closed done.
DirResult(op) ==
    CASE op.kind = "get" ->
            IF op.err = "notexist" THEN "miss"
            ELSE IF op.err # "" THEN "err"
            ELSE op.read
      [] OTHER -> IF op.err # "" THEN "err" ELSE "ok"

\* The caller's select, and what follows it. Put's clean-up removes the
\* final files; the temporary names it removes are the outer tmpKey and
\* tmpCert, which the goroutine's own variables shadow and which stay "".
DirReturn(c) ==
    /\ ops[c].caller = "wait"
    /\ \/ /\ ops[c].ctx
          /\ ops' = [ops EXCEPT ![c] = [@ EXCEPT !.caller = "idle", !.ret = "ctx"]]
          /\ UNCHANGED <<dirFiles, settled>>
       \/ /\ ops[c].go = "done"
          /\ ops' = [ops EXCEPT ![c] = [@ EXCEPT !.caller = "idle", !.ret = DirResult(ops[c])]]
          /\ dirFiles' = IF ops[c].kind = "put" /\ ops[c].err # ""
                         THEN [dirFiles EXCEPT ![ops[c].key] = [key |-> NoFile, crt |-> NoFile]]
                         ELSE dirFiles
          /\ settled' = IF Writes(ops[c].kind) /\ ops[c].err = "" /\ ops[c].alone
                        THEN [settled EXCEPT !["dir"][ops[c].key] = SettleAfter(ops[c])]
                        ELSE settled
    /\ UNCHANGED <<memCache, dirTemps, nops, mgrVars, nameVars, extVars>>

NextCache ==
    \/ \E c \in Clients, k \in CacheKeys : MemGet(c, k)
    \/ \E c \in Clients, k \in CacheKeys, v \in Bundles : MemPut(c, k, v)
    \/ \E c \in Clients, k \in CacheKeys : MemDelete(c, k)
    \/ \E c \in Clients, k \in CacheKeys : DirCall(c, "get", k, "")
    \/ \E c \in Clients, k \in CacheKeys, v \in Bundles \cup {BadKeyBundle} :
          DirCall(c, "put", k, v)
    \/ \E c \in Clients, k \in CacheKeys : DirCall(c, "delete", k, "")
    \/ \E c \in Clients : DirCancel(c)
    \/ \E c \in Clients : GetReadCert(c)
    \/ \E c \in Clients : GetReadKey(c)
    \/ \E c \in Clients : PutWriteTempKey(c)
    \/ \E c \in Clients : PutWriteTempCert(c)
    \/ \E c \in Clients : PutSelect(c)
    \/ \E c \in Clients : PutRenameKey(c)
    \/ \E c \in Clients : PutRenameCert(c)
    \/ \E c \in Clients : DeleteRemoveKey(c)
    \/ \E c \in Clients : DeleteRemoveCert(c)
    \/ \E c \in Clients : DirReturn(c)

\* ------------------------------------------- GetCertificate's server name

MaxNameLen == 4

NameAlphabet == {"H", "h", ".", ":", "4", "/", "\\"}

RECURSIVE StringsUpTo(_)
\* The strings over NameAlphabet of length at most n.
StringsUpTo(n) ==
    IF n = 0 THEN {Empty}
    ELSE LET shorter == StringsUpTo(n - 1)
         IN shorter \cup {Append(t, c) : t \in shorter, c \in NameAlphabet}

ServerNames == StringsUpTo(MaxNameLen)

\* No handshake in hand.
NoHello == hello = Empty /\ ident = Empty /\ line = "none"

\* GetCertificate is called with some server name.
InitNames == hello \in ServerNames /\ ident = Empty /\ line = "lower"

\* name := strings.ToLower(hello.ServerName)
HelloLower ==
    /\ line = "lower"
    /\ ident' = ToLower(hello)
    /\ line' = "check"
    /\ UNCHANGED <<hello, mgrVars, cacheVars, extVars>>

\* The two tests on name, each returning an error.
HelloCheck ==
    /\ line = "check"
    /\ line' = IF ServerNameError(ident) # "" THEN "rejected" ELSE "trim"
    /\ UNCHANGED <<hello, ident, mgrVars, cacheVars, extVars>>

\* name = strings.TrimSuffix(name, ".")
HelloTrim ==
    /\ line = "trim"
    /\ ident' = TrimSuffixDot(ident)
    /\ line' = "port"
    /\ UNCHANGED <<hello, mgrVars, cacheVars, extVars>>

\* if strings.Contains(name, ":") { name = strings.Split(name, ":")[0] }
\* and then getOrRenewCert(ctx, name) is called.
HelloPort ==
    /\ line = "port"
    /\ ident' = BeforeColon(ident)
    /\ line' = "call"
    /\ UNCHANGED <<hello, mgrVars, cacheVars, extVars>>

NextNames == HelloLower \/ HelloCheck \/ HelloTrim \/ HelloPort

\* The files DirCache names for an identity. A path is the sequence of its
\* elements from the root.

keyExt == <<".", "k", "e", "y">>

certExt == <<".", "c", "r", "t">>

\* The DirCache: the directory /v/d.
CacheDir == << <<"v">>, <<"d">> >>

\* filepath.Join(string(d), name) for a name without a separator: the
\* result is cleaned, so an empty name and "." give the directory itself
\* and ".." the directory above it.
FilepathJoin(dir, name) ==
    CASE name \in {Empty, <<".">>} -> dir
      [] name = <<".", ".">> -> SubSeq(dir, 1, Len(dir) - 1)
      [] OTHER -> Append(dir, name)

\* The file Get reads, Put renames to and Delete removes for an identity:
\* filepath.Join(string(d), name) + ext.
DirCacheFile(name, ext) ==
    LET joined == FilepathJoin(CacheDir, name)
    IN IF joined = <<>> THEN <<ext>>
       ELSE [joined EXCEPT ![Len(joined)] = @ \o ext]

\* ------------------------------------------- the bundle a backend returns

MaxChain == 4

Backends == {"vault", "cforigin", "cfssl", "aws"}

\* What a backend can answer a signing request with. Vault: secret.Data
\* with or without "ca_chain" (a list of caChain certificates; -1: no such
\* field) and "issuing_ca". Cloudflare: the certificate's request_type.
\* CFSSL and AWS: the signer's certificate or chain, of caChain certificates.
Replies ==
    [backend : {"vault"}, caChain : -1..MaxChain, issuingCa : BOOLEAN, reqType : {""}]
    \cup [backend : {"cforigin"}, caChain : {-1}, issuingCa : {FALSE},
          reqType : {"origin-rsa", "origin-ecc", "keyless-certificate"}]
    \cup [backend : {"cfssl", "aws"}, caChain : 1..MaxChain, issuingCa : {FALSE},
          reqType : {""}]

NoReply == [backend |-> "", caChain |-> -1, issuingCa |-> FALSE, reqType |-> ""]

NoTLSCert == [line |-> "none", pem |-> 0, chain |-> 0, leaf |-> FALSE]

\* No Issue call in hand.
NoChain == reply = NoReply /\ tlsCert = NoTLSCert

\* Issue has sent its signing request to a backend that will answer r.
InitChain == reply \in Replies /\ tlsCert = [NoTLSCert EXCEPT !.line = "sign"]

\* The number of CA certificates each Issue appends to the leaf's PEM.
CABlocks(r) ==
    CASE r.backend = "vault" ->
            IF r.caChain # -1 THEN r.caChain
            ELSE IF r.issuingCa THEN 1
            ELSE 0
      [] r.backend = "cforigin" ->
            IF r.reqType \in {"origin-rsa", "origin-ecc"} THEN 1 ELSE 0
      [] OTHER -> r.caChain

\* The signing request returns the certificate, or fails.
ChainSign ==
    /\ tlsCert.line = "sign"
    /\ \/ tlsCert' = [tlsCert EXCEPT !.line = "append"]
       \/ tlsCert' = [tlsCert EXCEPT !.line = "failed"]
    /\ UNCHANGED <<reply, notChainVars>>

\* caChainPEM: the leaf's PEM and the CA certificates appended to it.
ChainAppend ==
    /\ tlsCert.line = "append"
    /\ tlsCert' = [tlsCert EXCEPT !.line = "pair", !.pem = 1 + CABlocks(reply)]
    /\ UNCHANGED <<reply, notChainVars>>

\* tls.X509KeyPair(caChainPEM, keyPEM): one chain entry per PEM block.
ChainKeyPair ==
    /\ tlsCert.line = "pair"
    /\ tlsCert' = [tlsCert EXCEPT !.line = "leaf", !.chain = tlsCert.pem]
    /\ UNCHANGED <<reply, notChainVars>>

\* tlsCert.Leaf, _ = x509.ParseCertificate(tlsCert.Certificate[0]); return
ChainLeaf ==
    /\ tlsCert.line = "leaf"
    /\ tlsCert' = [tlsCert EXCEPT !.line = "returned", !.leaf = TRUE]
    /\ UNCHANGED <<reply, notChainVars>>

NextChain == ChainSign \/ ChainAppend \/ ChainKeyPair \/ ChainLeaf

\* --------------------------------------------------- the default key generator

MaxGenerate == 2

Goroutines == {1, 2, 3}

NoKey == 0

IdleGen == [pc |-> "idle", n |-> 0, waited |-> FALSE, key |-> NoKey, err |-> ""]

\* c.CertConfig.KeyGenerator = &singletonKey{}, which nobody has called yet.
InitKey ==
    /\ sk = [key |-> NoKey, err |-> "", o |-> "new"]
    /\ gens = [g \in Goroutines |-> IdleGen]
    /\ made = 0

\* A sync.Once that runs its function whenever no call of it is running.
OnceRunsAgain(o) == o # "running"

\* sync.Once.Do runs the function when no Do has run it yet.
OnceRuns(o) == o = "new"

\* Goroutine g calls Generate.
GenCall(g) ==
    /\ gens[g].pc = "idle"
    /\ gens[g].n < MaxGenerate
    /\ gens' = [gens EXCEPT ![g] = [@ EXCEPT !.pc = "do", !.n = @ + 1, !.waited = FALSE]]
    /\ UNCHANGED <<sk, made, notKeyVars>>

\* s.o.Do: run the function, wait for the Do that is running it, or go on.
GenDo(g) ==
    /\ gens[g].pc \in {"do", "blocked"}
    /\ IF OnceRuns(sk.o)
       THEN /\ sk' = [sk EXCEPT !.o = "running"]
            /\ gens' = [gens EXCEPT ![g].pc = "generate"]
       ELSE IF sk.o = "running"
       THEN /\ gens[g].pc = "do"
            /\ gens' = [gens EXCEPT ![g] = [@ EXCEPT !.pc = "blocked", !.waited = TRUE]]
            /\ UNCHANGED sk
       ELSE /\ gens' = [gens EXCEPT ![g].pc = "return"]
            /\ UNCHANGED sk
    /\ UNCHANGED <<made, notKeyVars>>

\* s.key, s.err = ecdsa.GenerateKey(elliptic.P256(), rand.Reader)
GenGenerateKey(g, fails) ==
    /\ gens[g].pc = "generate"
    /\ made' = made + 1
    /\ sk' = IF fails THEN [sk EXCEPT !.key = NoKey, !.err = "rand"]
             ELSE [sk EXCEPT !.key = made + 1, !.err = ""]
    /\ gens' = [gens EXCEPT ![g].pc = "unlock"]
    /\ UNCHANGED notKeyVars

\* The function returned: Do marks the Once done and lets the waiters go.
GenOnceDone(g) ==
    /\ gens[g].pc = "unlock"
    /\ sk' = [sk EXCEPT !.o = "done"]
    /\ gens' = [gens EXCEPT ![g].pc = "return"]
    /\ UNCHANGED <<made, notKeyVars>>

\* return s.key, s.err
GenReturn(g) ==
    /\ gens[g].pc = "return"
    /\ gens' = [gens EXCEPT ![g] = [@ EXCEPT !.pc = "idle", !.key = sk.key, !.err = sk.err]]
    /\ UNCHANGED <<sk, made, notKeyVars>>

NextKey ==
    \/ \E g \in Goroutines : GenCall(g)
    \/ \E g \in Goroutines : GenDo(g)
    \/ \E g \in Goroutines, fails \in BOOLEAN : GenGenerateKey(g, fails)
    \/ \E g \in Goroutines : GenOnceDone(g)
    \/ \E g \in Goroutines : GenReturn(g)

\* ------------------------------------------- an issuer's first-use set-up

MaxIssue == 2

\* An Issue call: authed is what AuthMethod.SetToken returned to it ("" not
\* called), signed whether it sent its signing request, reqCtx the call
\* whose context that request was bound to (0: no request).
IdleIssuer == [pc |-> "idle", n |-> 0, ret |-> "", authed |-> "", signed |-> FALSE, reqCtx |-> 0]

NoInst ==
    /\ inst = [kind |-> "", cli |-> "nil", connects |-> 0, modCtx |-> 0]
    /\ issuers = [g \in Goroutines |-> IdleIssuer]

\* An issuer made without FromClient, which nobody has called yet.
InitInst ==
    /\ inst \in [kind : {"aws", "vault", "cfssl"}, cli : {"nil"}, connects : {0}, modCtx : {0}]
    /\ issuers = [g \in Goroutines |-> IdleIssuer]

\* Goroutine g calls Issue.
IssCall(g) ==
    /\ issuers[g].pc = "idle"
    /\ issuers[g].n < MaxIssue
    /\ issuers' = [issuers EXCEPT ![g] = [IdleIssuer EXCEPT !.pc = "check", !.n = issuers[g].n + 1]]
    /\ UNCHANGED <<inst, notInstVars>>

\* vault: if v.cli == nil; cfssl: if i.remote == nil. aws: i.initOnce.Do on
\* the receiver i, which is a copy of the caller's Issuer made for this
\* call (Issue has a value receiver): the copy's Once is the caller's,
\* which no call ever marks done.
IssCheck(g) ==
    /\ issuers[g].pc = "check"
    /\ issuers' = [issuers EXCEPT ![g].pc =
          IF inst.kind = "aws" \/ inst.cli = "nil" THEN "connect" ELSE "use"]
    /\ UNCHANGED <<inst, notInstVars>>

\* vault: v.connect(ctx); cfssl: i.Connect(ctx); aws: the function given to
\* initOnce.Do, which asks for the CA certificate. On success the vault
\* client is stored in the instance, the aws state in the copy; on
\* failure Issue returns the error. cfssl's Connect stores the new remote
\* and binds its request modifier to this call's context before the Info
\* request that can fail, so the remote stays set after a failure.
IssConnect(g, fails) ==
    /\ issuers[g].pc = "connect"
    /\ inst' = [inst EXCEPT !.connects = @ + 1,
                            !.cli = IF inst.kind = "cfssl" THEN "set"
                                    ELSE IF fails \/ inst.kind = "aws" THEN @ ELSE "set",
                            !.modCtx = IF inst.kind = "cfssl" THEN g ELSE @]
    /\ issuers' = [issuers EXCEPT ![g] =
          IF fails THEN [@ EXCEPT !.pc = "idle", !.ret = "initErr"]
          ELSE [@ EXCEPT !.pc = "use"]]
    /\ UNCHANGED notInstVars

\* signCSR going on to the sign request whatever SetToken returned.
AfterSetTokenIgnored(fails) == "sign"

\* signCSR: if err != nil { return nil, err } after AuthMethod.SetToken.
AfterSetToken(fails) == IF fails THEN "idle" ELSE "sign"

\* vault, signCSR: err := v.AuthMethod.SetToken(ctx, v.cli)
IssSetToken(g, fails) ==
    /\ issuers[g].pc = "use"
    /\ inst.kind = "vault"
    /\ issuers' = [issuers EXCEPT ![g] =
          [@ EXCEPT !.pc = AfterSetToken(fails),
                    !.authed = IF fails THEN "err" ELSE "ok",
                    !.ret = IF fails THEN "authErr" ELSE ""]]
    /\ UNCHANGED <<inst, notInstVars>>

\* cfssl, Issue: i.remote.SetReqModifier(...) binds the requests of the
\* remote, which the instance's calls share, to this call's ctx.
IssSetReqModifier(g) ==
    /\ issuers[g].pc = "use"
    /\ inst.kind = "cfssl"
    /\ inst' = [inst EXCEPT !.modCtx = g]
    /\ issuers' = [issuers EXCEPT ![g].pc = "sign"]
    /\ UNCHANGED notInstVars

\* The rest of Issue: the signing request with the client. cfssl's request
\* gets the context the remote's request modifier holds at that moment.
IssUse(g) ==
    /\ issuers[g].pc = IF inst.kind = "aws" THEN "use" ELSE "sign"
    /\ issuers' = [issuers EXCEPT ![g] =
          [@ EXCEPT !.pc = "idle", !.ret = "ok", !.signed = TRUE,
                    !.reqCtx = IF inst.kind = "cfssl" THEN inst.modCtx ELSE g]]
    /\ UNCHANGED <<inst, notInstVars>>

NextInst ==
    \/ \E g \in Goroutines : IssCall(g)
    \/ \E g \in Goroutines : IssCheck(g)
    \/ \E g \in Goroutines, fails \in BOOLEAN : IssConnect(g, fails)
    \/ \E g \in Goroutines, fails \in BOOLEAN : IssSetToken(g, fails)
    \/ \E g \in Goroutines : IssSetReqModifier(g)
    \/ \E g \in Goroutines : IssUse(g)

\* ------------------------------------------------------ the RenewingToken

MaxSetToken == 2

MaxRenew == 2

Setters == {1, 2}

\* The token of RenewingToken.Initial; renewal k gives token k.
InitialToken == 0

NoToken == -1

\* The durations of the model, in seconds: RenewBefore, TimeToLive and
\* the TTL lookup-self reports.
TokenDurations == {1, 3}

\* A SetToken call: from is r.token when the call began, tok the token the
\* call set on the client.
IdleSetter ==
    [pc |-> "idle", n |-> 0, ret |-> "", cause |-> "", from |-> NoToken, tok |-> NoToken]

\* &RenewingToken{Initial: ...} and a client, before any call.
InitTok ==
    /\ \E rb \in TokenDurations, life \in TokenDurations :
          rt = [o |-> "new", token |-> NoToken, cancel |-> "nil", cctxDone |-> FALSE,
                closed |-> FALSE, panicked |-> FALSE, renewals |-> 0,
                renewBefore |-> rb, timeToLive |-> life]
    /\ task = [pc |-> "none", cause |-> "", val |-> "", ttl |-> 0, since |-> 0]
    /\ setters = [g \in Setters |-> IdleSetter]
    /\ cliToken = NoToken

\* A RenewingToken nobody uses.
NoTok == InitTok /\ rt.renewBefore = 1 /\ rt.timeToLive = 1

\* The process has not panicked.
Alive == ~rt.panicked

\* Goroutine g calls SetToken.
SetTokenCall(g) ==
    /\ Alive
    /\ setters[g].pc = "idle"
    /\ setters[g].n < MaxSetToken
    /\ setters' = [setters EXCEPT ![g] =
          [IdleSetter EXCEPT !.pc = "once", !.n = setters[g].n + 1, !.from = rt.token]]
    /\ UNCHANGED <<rt, task, cliToken, notTokVars>>

\* r.o.Do(...) and the test of err after it. The first call sets the
\* initial token, makes errC and looks the token up; when the lookup
\* succeeds and the token is renewable it starts the renewal goroutine,
\* otherwise the call returns the error. A later call skips all of it.
SetTokenOnce(g, lookup) ==
    /\ Alive
    /\ setters[g].pc = "once"
    /\ IF rt.o = "new"
       THEN /\ cliToken' = InitialToken
            /\ IF lookup = "ok"
               THEN /\ rt' = [rt EXCEPT !.o = "done", !.token = InitialToken, !.cancel = "set"]
                    /\ \E ttl \in TokenDurations :
                          task' = [task EXCEPT !.pc = "tick", !.ttl = ttl, !.since = 0]
                    /\ setters' = [setters EXCEPT ![g].pc = "select"]
               ELSE /\ rt' = [rt EXCEPT !.o = "done", !.token = InitialToken]
                    /\ setters' = [setters EXCEPT ![g] = [@ EXCEPT !.pc = "idle", !.ret = lookup]]
                    /\ UNCHANGED task
       ELSE /\ lookup = "ok"
            /\ setters' = [setters EXCEPT ![g].pc = "select"]
            /\ UNCHANGED <<rt, task, cliToken>>
    /\ UNCHANGED notTokVars

\* select { case err = <-r.errC: return err; default: }: errC is unbuffered,
\* so the receive is taken when the renewal goroutine stands at a send,
\* and the goroutine then returns.
SetTokenSelect(g) ==
    /\ Alive
    /\ setters[g].pc = "select"
    /\ IF task.pc = "send"
       THEN /\ setters' = [setters EXCEPT ![g] =
                  [@ EXCEPT !.pc = "idle", !.ret = task.val, !.cause = task.cause]]
            /\ task' = [task EXCEPT !.pc = "exited"]
       ELSE /\ setters' = [setters EXCEPT ![g].pc = "install"]
            /\ UNCHANGED task
    /\ UNCHANGED <<rt, cliToken, notTokVars>>

\* tok := r.token under tokenMu; cli.SetToken(tok); return nil
SetTokenInstall(g) ==
    /\ Alive
    /\ setters[g].pc = "install"
    /\ cliToken' = rt.token
    /\ setters' = [setters EXCEPT ![g] =
          [@ EXCEPT !.pc = "idle", !.ret = "nil", !.tok = rt.token]]
    /\ UNCHANGED <<rt, task, notTokVars>>

\* The ticker's period without the floor of one second.
WaitNoFloor(ttl) == ttl - rt.renewBefore

\* wait := ttl - r.RenewBefore; if wait < time.Second { wait = time.Second }
Wait(ttl) == IF ttl - rt.renewBefore < 1 THEN 1 ELSE ttl - rt.renewBefore

\* A second passes while the goroutine waits for its ticker.
TokTick ==
    /\ Alive
    /\ task.pc = "tick"
    /\ task.since < Wait(task.ttl)
    /\ task' = [task EXCEPT !.since = @ + 1]
    /\ UNCHANGED <<rt, setters, cliToken, notTokVars>>

\* The goroutine's select on cctx.Done() and the ticker: it returns once
\* the context is done, or goes on to renew once the ticker has fired.
TaskTick ==
    /\ Alive
    /\ task.pc = "tick"
    /\ \/ /\ rt.cctxDone
          /\ task' = [task EXCEPT !.pc = "exited"]
       \/ /\ rt.renewals < MaxRenew
          /\ task.since >= Wait(task.ttl)
          /\ task' = [task EXCEPT !.pc = "renew"]
    /\ UNCHANGED <<rt, setters, cliToken, notTokVars>>

\* The error value the goroutine sends on errC after a failure: its own
\* err for SetJSONBody, and for the request and for ParseSecret the err of
\* the enclosing SetToken call, which is nil.
SentError(cause) == IF cause = "body" THEN cause ELSE "nil"

\* The renew-self request: it stores the new token, or fails at
\* SetJSONBody, at the request (always, once cctx is done) or at
\* ParseSecret and goes to send on errC.
TaskRenew(outcome) ==
    /\ Alive
    /\ task.pc = "renew"
    /\ rt.cctxDone => outcome \in {"body", "request"}
    /\ IF outcome = "ok"
       THEN /\ rt' = [rt EXCEPT !.token = rt.renewals + 1, !.renewals = @ + 1]
            /\ task' = [task EXCEPT !.pc = "tick", !.ttl = rt.timeToLive, !.since = 0]
       ELSE /\ rt' = [rt EXCEPT !.renewals = @ + 1]
            /\ task' = [task EXCEPT !.pc = "send", !.cause = outcome,
                                    !.val = SentError(outcome)]
    /\ UNCHANGED <<setters, cliToken, notTokVars>>

\* Close: r.cancel(), a nil func until the first SetToken has started the
\* renewal goroutine.
TokClose ==
    /\ Alive
    /\ ~rt.closed
    /\ rt' = IF rt.cancel = "nil"
             THEN [rt EXCEPT !.closed = TRUE, !.panicked = TRUE]
             ELSE [rt EXCEPT !.closed = TRUE, !.cctxDone = TRUE]
    /\ UNCHANGED <<task, setters, cliToken, notTokVars>>

\* The steps the renewal goroutine takes by itself.
TaskStep == TaskTick \/ \E outcome \in {"ok", "body", "request", "parse"} : TaskRenew(outcome)

NextTok ==
    \/ \E g \in Setters : SetTokenCall(g)
    \/ \E g \in Setters, lookup \in {"ok", "lookup", "notRenewable"} : SetTokenOnce(g, lookup)
    \/ \E g \in Setters : SetTokenSelect(g)
    \/ \E g \in Setters : SetTokenInstall(g)
    \/ TokTick
    \/ TaskTick
    \/ \E outcome \in {"ok", "body", "request", "parse"} : TaskRenew(outcome)
    \/ TokClose

\* ---------------------------------------------------------- specifications

\* Nothing in hand outside the manager, the caches and the server name.
NoExt == NoChain /\ InitKey /\ NoInst /\ NoTok

Init == InitManager /\ InitCache /\ NoHello /\ NoExt

\* The manager of a caller that configured no SANs and the caches, at rest.
InitBase == InitManager /\ Len(dnsArr) = 0 /\ InitCache

Next ==
    \/ \E p \in Procs, raw \in RawNames : GetCertificate(p, raw)
    \/ \E p \in Procs, cri \in CertRequests : GetClientCertificate(p, cri)
    \/ \E p \in Procs : CacheGet(p)
    \/ \E p \in Procs : CacheDelete(p)
    \/ \E p \in Procs : DoChan(p)
    \/ \E p \in Procs : Select(p)
    \/ \E p \in Procs : CtxEnd(p)
    \/ Tick
    \/ \E k \in Keys : FlightAppendName(k)
    \/ \E k \in Keys : FlightAppendCN(k)
    \/ \E k \in Keys : IssueStart(k)
    \/ \E k \in Keys, ttl \in TTLs : IssueOk(k, ttl)
    \/ \E k \in Keys, e \in {"issuer", "ctx"} : IssueErr(k, e)
    \/ \E k \in Keys, o \in {"ok", "failed", "removed"} : FlightPut(k, o)
    \/ \E k \in Keys : FlightComplete(k)

vars == <<mgrVars, cacheVars, nameVars, extVars>>

\* The manager at rest, with the first of the caller's configs.
InitCacheOnly == Init /\ Len(dnsArr) = 0

\* The manager under concurrent hook calls.
Spec == Init /\ [][Next]_vars

\* The manager of a caller that configured no SANs.
InitLive == Init /\ Len(dnsArr) = 0

\* The statements of getOrRenewCert that caller p's goroutine runs itself.
CallerStep(p) == CacheGet(p) \/ CacheDelete(p) \/ DoChan(p) \/ Select(p)

\* The manager with every caller's goroutine scheduled. Nothing is assumed
\* of the flights: the issuer and the cache's Put may take for ever.
SpecLive == InitLive /\ [][Next]_vars /\ \A p \in Procs : WF_vars(CallerStep(p))

\* The cache implementations under concurrent clients.
SpecCache == InitCacheOnly /\ [][NextCache]_vars

\* The manager and the caches at rest, and a server name in hand.
InitNamesOnly == InitBase /\ InitNames /\ NoExt

\* GetCertificate's handling of the server name, for every name.
SpecNames == InitNamesOnly /\ [][NextNames]_vars

InitChainOnly == InitBase /\ NoHello /\ InitChain /\ InitKey /\ NoInst /\ NoTok

\* The bundle each backend's Issue builds, for every answer of the backend.
SpecChain == InitChainOnly /\ [][NextChain]_vars

InitKeyOnly == InitBase /\ NoHello /\ NoChain /\ InitKey /\ NoInst /\ NoTok

\* Goroutines calling Generate on the one default key generator.
SpecKey == InitKeyOnly /\ [][NextKey]_vars

InitInstOnly == InitBase /\ NoHello /\ NoChain /\ InitKey /\ InitInst /\ NoTok

\* Goroutines calling Issue on one issuer instance.
SpecInst == InitInstOnly /\ [][NextInst]_vars

InitWarm ==
    /\ InitManagerWith(StoredBefore) /\ Len(dnsArr) = 0
    /\ InitCache /\ NoHello /\ NoExt

\* The manager started over a cache kept from an earlier run.
SpecWarm == InitWarm /\ [][Next]_vars

InitTokOnly == InitBase /\ NoHello /\ NoChain /\ InitKey /\ NoInst /\ InitTok

\* A RenewingToken with its renewal goroutine scheduled. Nothing is assumed
\* of the callers: nobody has to call SetToken or Close.
SpecTok == InitTokOnly /\ [][NextTok]_vars /\ WF_vars(TaskStep)

\* ------------------------------------------------------------- properties

Range(s) == {s[i] : i \in DOMAIN s}

SANs(cert) == Range(cert.dns) \cup Range(cert.ips)

\* Caller p leaves getOrRenewCert in this step.
Returns(p) == callers[p].pc # "idle" /\ callers'[p].pc = "idle"

\* Caller p finishes its Cache.Get in this step, and the read did not fail.
ReadsCache(p) ==
    /\ callers[p].pc = "get"
    /\ callers'[p].pc # "get"
    /\ ~(callers'[p].pc = "idle" /\ lastRet'.src = "cacheErr")

\* C1 (as stated): of two overlapping hook calls for one identity, the
\* second never has the issuer invoked while the bundle issued for the
\* first is in the cache and still outside its renewal window.
C1_OneIssuePerWindow ==
    \A k \in Keys :
        (group[k].pc = "issuing" /\ group[k].owner # 0) =>
            LET p == group[k].owner
                hit == cache[group[k].name]
            IN ~(/\ callers[p].peer # 0
                 /\ hit.serial = callers[p].peer
                 /\ now < hit.notAfter - RenewBefore)

\* C2: a hook call that reads a bundle from the cache whose leaf expires
\* later than now + RenewBefore returns exactly that bundle, at once, with
\* no issuer call and no flight started.
C2_FreshHitReturned ==
    [][\A p \in Procs :
          LET hit == cache[callers[p].name]
          IN (/\ ReadsCache(p)
              /\ hit # NoCert
              /\ now < hit.notAfter - RenewBefore)
             => /\ callers'[p].pc = "idle"
                /\ lastRet' = [name |-> callers[p].name, kind |-> "cert",
                               cert |-> hit, err |-> "", src |-> "cache",
                               put |-> "none"]
                /\ issued' = issued
                /\ group' = group]_vars

\* A second hook call got the first call's bundle back from the cache.
C2_Witness ==
    /\ calls = 2
    /\ lastRet.kind = "cert"
    /\ lastRet.src = "cache"
    /\ issued[lastRet.name] = 1

\* C3: a hook call that reads a bundle inside its renewal window from the
\* cache goes on to evict it and to ask for a flight; and when a call that
\* follows a call whose issued bundle was stored gets its bundle from the
\* issuer too, the issuer has been called exactly once more and a
\* successful put left that second bundle in the cache.
C3_StaleHitRenewed ==
    [][\A p \in Procs :
          LET name == callers[p].name
              hit == cache[name]
          IN /\ (/\ ReadsCache(p)
                  /\ hit # NoCert
                  /\ ~(now < hit.notAfter - RenewBefore))
                 => (callers'[p].pc = "delete" /\ lastRet' = lastRet)
             /\ (callers[p].pc = "delete" /\ callers'[p].pc # "delete")
                 => (callers'[p].pc = "dochan" /\ cache'[name] \in {NoCert, hit})
             /\ (/\ Returns(p)
                  /\ callers[p].after # 0
                  /\ lastRet'.kind = "cert"
                  /\ lastRet'.src = "flight")
                 => /\ lastRet'.cert.serial = callers[p].after + 1
                    /\ issued'[name] = callers[p].after + 1
                    /\ (lastRet'.put = "ok" => cache'[name] = lastRet'.cert)]_vars

\* The second of two consecutive calls is about to return the second
\* bundle, which is the one in the cache.
C3_Witness ==
    \E p \in Procs :
        /\ callers[p].after = 1
        /\ callers[p].ch.kind = "cert"
        /\ callers[p].ch.cert.serial = 2
        /\ issued[callers[p].name] = 2
        /\ cache[callers[p].name] = callers[p].ch.cert

\* C4 (as stated): a bundle a hook call got from a flight was made by an
\* Issue call whose config names the call's identity.
C4_BundleMadeForIdentity ==
    (lastRet.kind = "cert" /\ lastRet.src = "flight")
        => lastRet.name \in SANs(lastRet.cert)

\* C5 (as stated): every bundle a hook call returns has a leaf that
\* expires later than now + RenewBefore.
C5_ReturnedOutsideWindow ==
    [][\A p \in Procs :
          (Returns(p) /\ lastRet'.kind = "cert")
              => now < lastRet'.cert.notAfter - RenewBefore]_vars

\* C5 (amended): every bundle a hook call returns from the cache has a
\* leaf that expires later than now + RenewBefore; a bundle just issued is
\* returned whatever its expiry.
C5_CachedReturnedOutsideWindow ==
    [][\A p \in Procs :
          (Returns(p) /\ lastRet'.kind = "cert" /\ lastRet'.src = "cache")
              => now < lastRet'.cert.notAfter - RenewBefore]_vars

\* A bundle was returned from the cache after the clock had moved on.
C5_Witness ==
    /\ lastRet.kind = "cert"
    /\ lastRet.src = "cache"
    /\ now = MaxTime
    /\ lastRet.cert.notAfter > MaxTime + RenewBefore

\* C11: a call of the server-side hook with a server name that is empty or
\* contains "/" or "\" returns an error, and changes neither the cache nor
\* the flights nor the issuer's count, nor does the caller enter
\* getOrRenewCert.
C11_InvalidNameRejected ==
    [][\A p \in Procs, raw \in RawNames :
          (/\ raw = Empty \/ \E i \in 1..Len(raw) : raw[i] \in {"/", "\\"}
           /\ GetCertificate(p, raw))
          => /\ lastRet'.kind = "err"
             /\ lastRet'.src = "hook"
             /\ lastRet'.err \in {"missing server name",
                                  "server name contains invalid character"}
             /\ callers' = callers
             /\ cache' = cache
             /\ group' = group
             /\ issued' = issued]_vars

\* The hook rejected a name with an invalid character, after a call that
\* had stored a bundle: the cache still holds it.
C11_Witness ==
    /\ lastRet.src = "hook"
    /\ lastRet.err = "server name contains invalid character"
    /\ \E n \in Names : cache[n] # NoCert /\ issued[n] = 1

\* C12 (as stated): the identity GetCertificate passes on has no trailing
\* dot and no ":", and the name "H.:4" (upper case, trailing dot, port)
\* gives the identity "h".
C12_NormalizedIdentity ==
    line = "call" =>
        /\ (ident = Empty \/ ident[Len(ident)] # ".")
        /\ \A i \in 1..Len(ident) : ident[i] # ":"
        /\ (hello = <<"H", ".", ":", "4">> => ident = <<"h">>)

\* C13 (as stated): the identity GetCertificate passes on is never empty
\* and holds no path separator.
C13_IdentityWellFormed ==
    line = "call" =>
        /\ ident # Empty
        /\ \A i \in 1..Len(ident) : ident[i] \notin {"/", "\\"}

\* C14: when Cache.Get returns an error other than a miss, the hook returns
\* that error, and the call neither goes on to the issuer nor changes the
\* cache; the call goes on to DoChan only after a miss, or (through Delete)
\* after a hit that is due for renewal.
C14_OnlyMissRecovered ==
    [][\A p \in Procs, err \in {"", "miss", "cache"} :
          CacheGetReturning(p, err)
          => /\ (err \notin {"", "miss"}
                   => /\ callers'[p].pc = "idle"
                      /\ lastRet'.kind = "err"
                      /\ lastRet'.err = err
                      /\ lastRet'.name = callers[p].name
                      /\ issued' = issued
                      /\ cache' = cache
                      /\ \A k \in Keys : group'[k].pc = group[k].pc)
             /\ (callers'[p].pc = "dochan" => err = "miss")
             /\ (callers'[p].pc = "delete"
                   => /\ err = ""
                      /\ ~NotDueForRenewal(now, cache[callers[p].name].notAfter))]_vars

\* A hook call returned the cache's read error, and the issuer has not
\* been called at all.
C14_Witness ==
    /\ lastRet.kind = "err"
    /\ lastRet.src = "cacheErr"
    /\ lastRet.err = "cache"
    /\ \A n \in Names : issued[n] = 0
    /\ \A q \in Procs : callers[q].pc = "idle"

\* C15: when Issue succeeded and Cache.Put failed, the flight hands the
\* issued bundle, and no error, to every caller joined to it, and a caller
\* that reads the flight's result returns that bundle.
C15_PutFailureSwallowed ==
    [][/\ \A k \in Keys :
            (/\ FlightComplete(k)
             /\ group[k].put \in {"failed", "removed"})
            => /\ group[k].cert # NoCert
               /\ \A p \in group[k].chans :
                     /\ callers'[p].ch.kind = "cert"
                     /\ callers'[p].ch.err = ""
                     /\ callers'[p].ch.cert = group[k].cert
       /\ \A p \in Procs :
            (/\ Returns(p)
             /\ callers[p].ch.put \in {"failed", "removed"}
             /\ lastRet'.src = "flight")
            => /\ lastRet'.kind = "cert"
               /\ lastRet'.cert = callers[p].ch.cert
               /\ lastRet'.cert # NoCert]_vars

\* A caller returned the bundle of a flight whose put failed, the other
\* caller holds the same bundle in its channel, and the cache has no entry.
C15_Witness ==
    /\ lastRet.kind = "cert"
    /\ lastRet.src = "flight"
    /\ lastRet.put = "failed"
    /\ cache[lastRet.name] = NoCert
    /\ \E q \in Procs : /\ callers[q].pc = "wait"
                         /\ callers[q].ch.kind = "cert"
                         /\ callers[q].ch.put = "failed"
                         /\ callers[q].ch.cert = lastRet.cert

\* C16: when a flight's Issue call fails, the flight makes no Cache.Put and
\* leaves the cache as it is, every caller joined to the flight is handed
\* that error, and a caller that reads the flight's result returns it.
C16_IssuerErrorShared ==
    [][/\ \A k \in Keys :
            /\ \A e \in {"issuer", "ctx"} :
                  IssueErr(k, e)
                  => /\ cache' = cache
                     /\ group'[k].pc = "complete"
                     /\ group'[k].err = e
                     /\ group'[k].put = "none"
            /\ (group[k].pc = "issuing" /\ group'[k].err # "")
                  => /\ cache' = cache
                     /\ group'[k].pc = "complete"
            /\ (FlightComplete(k) /\ group[k].err # "")
                  => /\ group[k].put = "none"
                     /\ \A p \in group[k].chans :
                           /\ callers'[p].ch.kind = "err"
                           /\ callers'[p].ch.err = group[k].err
       /\ \A p \in Procs :
            (/\ Returns(p)
             /\ callers[p].ch.kind = "err"
             /\ lastRet'.src = "flight")
            => /\ lastRet'.kind = "err"
               /\ lastRet'.err = callers[p].ch.err]_vars

\* A caller returned the issuer's error, the other caller holds the same
\* error in its channel, and the cache has no entry for the identity.
C16_Witness ==
    /\ lastRet.kind = "err"
    /\ lastRet.src = "flight"
    /\ lastRet.err = "issuer"
    /\ cache[lastRet.name] = NoCert
    /\ \E q \in Procs : /\ callers[q].pc = "wait"
                         /\ callers[q].name = lastRet.name
                         /\ callers[q].ch.kind = "err"
                         /\ callers[q].ch.err = "issuer"

\* C17: when a caller that joined a flight another caller created returns
\* at its select with its context's error, no other caller returns with
\* it and the flight is unchanged but for that caller's channel; the
\* context Issue runs under is not done while the flight's creator is
\* inside its call with a live context, whatever the joiners' contexts
\* are, and Issue fails with the context's error only once it is done.
C17_JoinerCancelIsLocal ==
    [][/\ \A p \in Procs :
            (Returns(p) /\ lastRet'.src = "ctx")
            => /\ lastRet'.kind = "err"
               /\ lastRet'.err = "ctx"
               /\ \A q \in Procs \ {p} : callers'[q] = callers[q]
               /\ cache' = cache
               /\ \A k \in Keys :
                     (group[k].pc # "none" /\ group[k].owner # p)
                     => group'[k] = [group[k] EXCEPT !.chans = @ \ {p}]
       /\ \A k \in Keys :
            /\ (/\ group[k].pc # "none"
                /\ group[k].owner # 0
                /\ ~callers[group[k].owner].cancelled)
               => ~FlightCtxDone(group[k])
            /\ IssueErr(k, "ctx")
               => \/ group[k].owner = 0
                  \/ callers[group[k].owner].cancelled]_vars

\* A caller that had joined the flight returned its context's error; the
\* flight, the only one there has been for the identity, went on under its
\* creator, stored its bundle and is about to hand it to its creator.
C17_Witness ==
    \E k \in Keys :
        /\ group[k].pc = "complete"
        /\ group[k].err = ""
        /\ group[k].put = "ok"
        /\ group[k].owner # 0
        /\ group[k].chans = {group[k].owner}
        /\ ~callers[group[k].owner].cancelled
        /\ cache[group[k].name] = group[k].cert
        /\ issued[group[k].name] = 1
        /\ lastRet.src = "ctx"
        /\ lastRet.name = group[k].name
        /\ calls = 2

\* C18: a hook call whose context has ended (the IssueTimeout deadline
\* fired, or the handshake's context ended first) returns, whether or not
\* the flight it waits for ever completes; at the select the return is
\* enabled as soon as the context has ended.
C18_ReturnsAtDeadline ==
    /\ [](\A p \in Procs :
            (callers[p].pc = "wait" /\ callers[p].cancelled) => ENABLED Select(p))
    /\ \A p \in Procs :
            (callers[p].pc # "idle" /\ callers[p].cancelled) ~> (callers[p].pc = "idle")

\* The flight's creator returned its context's error at the select while
\* the issuer is still at work for it.
C18_Witness ==
    \E k \in Keys :
        /\ group[k].pc = "issuing"
        /\ group[k].owner = 0
        /\ group[k].chans = {}
        /\ lastRet.src = "ctx"
        /\ lastRet.kind = "err"
        /\ lastRet.name = group[k].name
        /\ calls = 1

\* C19: a caller reaching DoChan while no flight is in progress for its own
\* identity starts a flight of its own, whatever flights are in progress
\* for other identities; and a caller only ever waits on a flight for its
\* own identity.
C19_OtherIdentityNotBlocked ==
    [][/\ \A p \in Procs :
            (/\ DoChan(p)
             /\ \A k \in Keys : group[k].pc = "none" \/ group[k].name # callers[p].name)
            => \E k \in Keys :
                  /\ group[k].pc = "none"
                  /\ group'[k].pc = "clone"
                  /\ group'[k].owner = p
                  /\ group'[k].name = callers[p].name
                  /\ group'[k].chans = {p}
       /\ \A p \in Procs, k \in Keys :
            p \in group[k].chans => group[k].name = callers[p].name]_vars

\* The issuer is at work for one identity, for a caller still inside its
\* call, while a caller for another identity holds the bundle its own
\* flight issued and stored.
C19_Witness ==
    \E k \in Keys, p \in Procs :
        /\ group[k].pc = "issuing"
        /\ group[k].owner \notin {0, p}
        /\ callers[p].pc = "wait"
        /\ callers[p].name # group[k].name
        /\ callers[p].ch.kind = "cert"
        /\ callers[p].ch.put = "ok"
        /\ cache[callers[p].name] = callers[p].ch.cert

\* C20 (as stated): once a DirCache.Put that ran alone on its key has
\* returned the context's error or a failure, and its goroutine and every
\* other call have ended, the directory holds no temporary file, and the
\* key's key file and certificate file are both there or both absent.
C20_NoArtifactsAfterFailedPut ==
    \A c \in Clients :
        (/\ ops[c].impl = "dir"
         /\ ops[c].kind = "put"
         /\ ops[c].alone
         /\ ops[c].ret \in {"ctx", "err"}
         /\ \A d \in Clients : ~Busy(d))
        => /\ dirTemps = 0
           /\ (dirFiles[ops[c].key].key = NoFile) = (dirFiles[ops[c].key].crt = NoFile)

\* C21 (as stated): when the first call on an empty directory is a
\* DirCache.Put that returns a failure of one of its steps, then once its
\* goroutine has ended the directory holds neither of the two temporary
\* files nor either of the two final files.
C21_FailedPutRemovesArtifacts ==
    \A c \in Clients :
        (/\ nops = 1
         /\ ops[c].impl = "dir"
         /\ ops[c].kind = "put"
         /\ ops[c].ret = "err"
         /\ ~Busy(c))
        => /\ dirTemps = 0
           /\ dirFiles[ops[c].key] = [key |-> NoFile, crt |-> NoFile]

\* C22 (as stated, for a get whose own context is never done): a get,
\* whatever puts and deletes on its key run beside it, returns a bundle
\* some put stored whole or ErrCacheMiss, never another error.
C22_OverlappingGetIsClean ==
    \A c \in Clients :
        (/\ ops[c].kind = "get"
         /\ ops[c].ret # ""
         /\ ~ops[c].ctx)
        => ops[c].ret \in Bundles \cup {"miss"}

\* C23 (as stated): a DirCache.Get whose goroutine found the certificate
\* file or the key file absent returns ErrCacheMiss.
C23_MissWhenFileAbsent ==
    \A c \in Clients :
        (/\ ops[c].impl = "dir"
         /\ ops[c].kind = "get"
         /\ ops[c].ret # ""
         /\ ops[c].err = "notexist")
        => ops[c].ret = "miss"

\* C23 (amended): Get's goroutine ends with a not-exist error exactly when
\* the certificate file is absent, or the key file is absent when it comes
\* to read it; a Get whose context is not done then returns ErrCacheMiss
\* (with its context done it may return the context's error instead); and
\* every bundle Get returns is the pair it read, with cert.Leaf set.
C23_MissWhenFileAbsentLiveContext ==
    [][\A c \in Clients :
          /\ GetReadCert(c)
               => /\ (dirFiles[ops[c].key].crt = NoFile) = (ops'[c].err = "notexist")
                  /\ (dirFiles[ops[c].key].crt = NoFile) = (ops'[c].go = "done")
          /\ GetReadKey(c)
               => /\ (dirFiles[ops[c].key].key = NoFile) = (ops'[c].err = "notexist")
                  /\ ops'[c].leaf = (ops'[c].err = "")
          /\ (DirReturn(c) /\ ops[c].kind = "get")
               => /\ (ops[c].err = "notexist" /\ ~ops[c].ctx) => ops'[c].ret = "miss"
                  /\ ops'[c].ret = "miss" => ops[c].err = "notexist"
                  /\ ops'[c].ret \in Bundles
                        => /\ ops[c].leaf
                           /\ ops[c].err = ""
                           /\ ops'[c].ret = ops[c].read]_vars

\* A Get with a live context that read the certificate file and found the
\* key file absent (a partial pair) returned ErrCacheMiss.
C23_Witness ==
    \E c \in Clients :
        /\ ops[c].impl = "dir"
        /\ ops[c].kind = "get"
        /\ ~ops[c].ctx
        /\ ops[c].read \in Bundles
        /\ ops[c].err = "notexist"
        /\ ops[c].ret = "miss"

\* C24 (as stated): the bundle an issuer backend returns has a chain of at
\* least two certificates and its Leaf set.
C24_ChainHasLeafAndCA ==
    tlsCert.line = "returned" => tlsCert.chain >= 2 /\ tlsCert.leaf

\* C25: ecdsa.GenerateKey is called at most once, before any Generate call
\* returns, and every Generate call, whichever goroutine makes it and
\* whether or not it had to wait for the first call, returns what that one
\* call produced.
C25_OneKeyForAll ==
    /\ made <= 1
    /\ \A g \in Goroutines :
          (gens[g].n > 0 /\ gens[g].pc = "idle")
          => /\ made = 1
             /\ sk.o = "done"
             /\ gens[g].key = sk.key
             /\ gens[g].err = sk.err
    /\ \A g, h \in Goroutines :
          (gens[g].n > 0 /\ gens[g].pc = "idle" /\ gens[h].n > 0 /\ gens[h].pc = "idle")
          => gens[g].key = gens[h].key

\* Three goroutines hold the same key: one made it, one had to wait for
\* the Once while it was being made, and one has called Generate twice.
C25_Witness ==
    \E g, h \in Goroutines :
        /\ g # h
        /\ gens[g].pc = "idle" /\ gens[g].n = 2
        /\ gens[h].pc = "idle" /\ gens[h].waited
        /\ gens[g].key # NoKey
        /\ gens[g].key = gens[h].key
        /\ \A f \in Goroutines : gens[f].n > 0 /\ gens[f].pc = "idle"

\* C26 (as stated): on one issuer instance the connect or discovery step
\* runs at most once, whatever Issue calls are made and however they
\* overlap.
C26_InitOnce == inst.connects <= 1

\* C27 (as stated): once Close has been called, the renewal goroutine, if
\* it was started, ends.
C27_CloseEndsTask ==
    rt.closed ~> (task.pc \in {"none", "exited"})

\* C28 (as stated): a SetToken call that takes a failed renewal's message
\* from errC returns the error the renewal failed with.
C28_RenewalErrorReturned ==
    \A g \in Setters :
        setters[g].cause # "" => setters[g].ret = setters[g].cause

\* C29: delivering a flight's outcome clears its key; the outcome goes
\* only to the callers that joined the flight before that; and the first
\* call to reach DoChan for the key afterwards starts a flight of its own,
\* with no bundle and no error yet and its closure still to run, so what
\* it returns comes from a new Issuer.Issue call.
C29_KeyClearedAfterDelivery ==
    [][/\ \A p \in Procs :
            (callers'[p].ch # callers[p].ch /\ callers'[p].ch # NoResult) =>
                \E k \in Keys :
                    /\ group[k].pc = "complete"
                    /\ p \in group[k].chans
                    /\ group[k].name = callers[p].name
                    /\ group'[k] = NoCall
       /\ \A k \in Keys :
            (group[k].pc = "none" /\ group'[k].pc # "none") =>
                \E p \in Procs :
                    /\ group'[k] = [NoCall EXCEPT !.pc = "clone", !.name = callers[p].name,
                                                  !.owner = p, !.chans = {p}]
                    /\ callers'[p].ch = NoResult
      ]_vars

\* C29: the issuer's error was returned to a caller, and the flight a later
\* call for the same identity started has got a bundle from a second Issue.
C29_Witness ==
    \E k \in Keys :
        /\ lastRet.kind = "err" /\ lastRet.src = "flight" /\ lastRet.err = "issuer"
        /\ lastRet.name = group[k].name
        /\ group[k].pc = "put"
        /\ group[k].cert.serial = 2

\* C30 (as stated): the CertConfig the issuer reads lists the identity of
\* the flight at most once among its DNS and IP SANs.
C30_IdentityListedOnce ==
    \A k \in Keys :
        group[k].pc \in {"issuing", "put"} /\ group[k].cert # NoCert =>
            LET sans == group[k].cert.dns \o group[k].cert.ips
            IN Cardinality({i \in 1..Len(sans) : sans[i] = group[k].name}) <= 1

\* C31 (as stated): once the first use of a RenewingToken has failed (the
\* lookup failed or the token is not renewable, so no renewal goroutine
\* was started), no SetToken call returns nil.
C31_FirstUseErrorSticky ==
    (rt.o = "done" /\ task.pc = "none") =>
        \A g \in Setters : setters[g].ret # "nil"

\* C32 (as stated): a SetToken call that began after a successful renewal
\* sets a renewed token, at least as new as that one, on the client; every
\* renewal is attempted max(ttl - RenewBefore, 1 s) after the wait began;
\* and the renewal goroutine ends only after Close.
C32_RenewsUntilClose ==
    /\ \A g \in Setters :
          (setters[g].from >= 1 /\ setters[g].ret # "") => setters[g].tok >= setters[g].from
    /\ task.pc = "renew" =>
          /\ task.since >= 1
          /\ task.since >= task.ttl - rt.renewBefore
          /\ task.since = 1 \/ task.since = task.ttl - rt.renewBefore
    /\ task.pc = "exited" => rt.closed

\* C32 (amended): a SetToken call that began after a successful renewal and
\* found no failed renewal waiting on errC sets a renewed token, at least as
\* new as that one, on the client; every renewal is attempted
\* max(ttl - RenewBefore, 1 s) after the wait began; and the renewal
\* goroutine ends only after Close or after handing over a failed renewal.
C32_RenewsUntilCloseOrFailure ==
    /\ \A g \in Setters :
          (setters[g].from >= 1 /\ setters[g].ret # "" /\ setters[g].cause = "") =>
              /\ setters[g].ret = "nil"
              /\ setters[g].tok >= setters[g].from
    /\ task.pc = "renew" =>
          /\ task.since >= 1
          /\ task.since >= task.ttl - rt.renewBefore
          /\ task.since = 1 \/ task.since = task.ttl - rt.renewBefore
    /\ task.pc = "exited" => rt.closed \/ task.cause # ""

\* C32: after two renewals, the goroutine waiting for the third, a SetToken
\* call that began after the first has set the second token on the client.
C32_Witness ==
    /\ task.pc = "tick"
    /\ rt.token = 2
    /\ cliToken = 2
    /\ \E g \in Setters :
          setters[g].from = 1 /\ setters[g].ret = "nil" /\ setters[g].tok = 2

\* C40 (as stated): Close never panics, whatever state the RenewingToken
\* is in.
C40_CloseNeverPanics == ~rt.panicked

\* C33: in the Vault issuer an Issue call sends its sign request only after
\* AuthMethod.SetToken returned nil to that call; a call to which SetToken
\* returned an error sends none and returns that error.
C33_SetTokenBeforeSign ==
    inst.kind = "vault" =>
        \A g \in Goroutines :
            /\ issuers[g].signed => issuers[g].authed = "ok"
            /\ issuers[g].pc = "sign" => issuers[g].authed = "ok"
            /\ issuers[g].authed = "err" =>
                  /\ ~issuers[g].signed
                  /\ issuers[g].pc = "idle"
                  /\ issuers[g].ret = "authErr"

\* C33: one Issue call has sent its sign request after SetToken, another
\* has returned SetToken's error.
C33_Witness ==
    /\ inst.kind = "vault"
    /\ \E g, h \in Goroutines :
          /\ issuers[g].signed /\ issuers[g].authed = "ok" /\ issuers[g].ret = "ok"
          /\ issuers[h].authed = "err" /\ issuers[h].ret = "authErr"

\* C39 (as stated): in the CFSSL issuer the signing request of an Issue call
\* is bound to the context of that call.
C39_RequestBoundToOwnContext ==
    inst.kind = "cfssl" =>
        \A g \in Goroutines : issuers[g].signed => issuers[g].reqCtx = g

\* C34 (as stated): the manager's Cache.Delete never removes a bundle that
\* is outside its renewal window.
C34_FreshNeverDeleted ==
    [][\A p \in Procs :
          LET hit == cache[callers[p].name]
          IN (/\ callers[p].pc = "delete"
              /\ callers'[p].pc # "delete"
              /\ hit # NoCert
              /\ cache'[callers[p].name] = NoCert)
             => ~NotDueForRenewal(now, hit.notAfter)]_vars

\* C35 (as stated): no Issuer.Issue call for an identity starts while the
\* cache holds a bundle for that identity that is outside its renewal
\* window.
C35_NoIssueOverFreshBundle ==
    [][\A k \in Keys :
          (group[k].pc = "issue" /\ group'[k].pc = "issuing") =>
              LET hit == cache[group[k].name]
              IN ~(hit # NoCert /\ NotDueForRenewal(now, hit.notAfter))]_vars

\* C36 (as stated): a hook call returns a context's error only when its own
\* context is done.
C36_NoForeignCancellation ==
    [][\A p \in Procs :
          (Returns(p) /\ lastRet'.kind = "err" /\ lastRet'.err = "ctx")
              => callers[p].cancelled]_vars

\* C37 (as stated): the config an Issue call for an identity reads has that
\* identity among its SANs, and has no other identity of the model there
\* but the common name and the SANs the caller configured.
C37_ConfigOfOwnFlight ==
    \A k \in Keys :
        (group[k].pc = "issuing" /\ group[k].cert # NoCert) =>
            /\ group[k].name \in SANs(group[k].cert)
            /\ \A m \in Names \ {group[k].name, CommonName} :
                  m \in SANs(group[k].cert) => m \in Range(SubSeq(dnsArr, 1, cfg.dnsLen))

\* C38 (as stated): for the identity GetCertificate passes on, the key file
\* and the certificate file DirCache names lie inside the cache directory.
C38_FilesInsideCacheDir ==
    line = "call" =>
        \A ext \in {keyExt, certExt} :
            LET file == DirCacheFile(ident, ext)
            IN /\ Len(file) > Len(CacheDir)
               /\ SubSeq(file, 1, Len(CacheDir)) = CacheDir

\* C6 (as stated, for calls whose own context is never done): a get that
\* begins after a put of v on its key returned nil, with no put or delete
\* on the key running beside that put or begun since, returns v.
C6_GetAfterPut ==
    \A c \in Clients :
        (/\ ops[c].ret # ""
         /\ ops[c].kind = "get"
         /\ ops[c].expect \in Bundles
         /\ ~ops[c].ctx)
        => ops[c].ret = ops[c].expect

\* C7 (as stated): a get of a key that was never stored, or was put and
\* then deleted, returns ErrCacheMiss, and a delete of such a key returns
\* nil.
C7_AbsentKey ==
    \A c \in Clients :
        (ops[c].ret # "" /\ ops[c].expect \in {"never", "deleted"})
        => /\ ops[c].kind = "get" => ops[c].ret = "miss"
           /\ ops[c].kind = "delete" => ops[c].ret = "ok"

\* C7 (amended): a get or delete whose context is not done, on a key that
\* was never stored or was put and then deleted with no other put or
\* delete on the key in progress, returns ErrCacheMiss or nil; with its
\* context done, a DirCache call may return the context's error instead.
C7_AbsentKeyLiveContext ==
    \A c \in Clients :
        (/\ ops[c].ret # ""
         /\ ops[c].expect \in {"never", "deleted"}
         /\ ~ops[c].ctx)
        => /\ ops[c].kind = "get" => ops[c].ret = "miss"
           /\ ops[c].kind = "delete" => ops[c].ret = "ok"

\* On the directory cache, one client's delete of a stored key returned
\* nil and the other's get after it returned ErrCacheMiss.
C7_Witness ==
    \E c, d \in Clients :
        /\ ops[c].impl = "dir" /\ ops[c].kind = "get"
        /\ ops[c].expect = "deleted" /\ ops[c].ret = "miss" /\ ~ops[c].ctx
        /\ ops[d].impl = "dir" /\ ops[d].kind = "delete"
        /\ ops[d].expect \in Bundles /\ ops[d].alone /\ ops[d].ret = "ok"

\* C8 (as stated): the config an Issue call for identity X gets has X in
\* exactly one SAN list (the IP list iff X is an IP literal), and has
\* CommonName among the DNS SANs when CommonName differs from X.
C8_ConfigNamesIdentity ==
    \A k \in Keys :
        group[k].pc = "issuing" =>
            LET name == group[k].name
                dns == Range(group[k].cert.dns)
                ips == Range(group[k].cert.ips)
            IN /\ (name \in dns) # (name \in ips)
               /\ (name \in ips) <=> IsIP(name)
               /\ (name # CommonName => CommonName \in dns)

\* What the caller sees of the CertConfig it handed to the manager.
CallerView ==
    [dns |-> SubSeq(dnsArr, 1, cfg.dnsLen),
     ips |-> SubSeq(ipArr, 1, cfg.ipLen),
     keyGen |-> cfg.keyGen]

C10_ClientUsesCommonName ==
    \A p \in Procs :
        callers[p].hook = "client" =>
            /\ callers[p].name = CommonName
            /\ (callers[p].pc = "wait" /\ callers[p].ch.kind = "none")
                => p \in group[CommonName].chans

\* A client hook call waits on the flight keyed CommonName.
C10_Witness ==
    \E p \in Procs :
        /\ callers[p].hook = "client"
        /\ callers[p].pc = "wait"
        /\ p \in group[CommonName].chans
        /\ group[CommonName].pc = "issuing"

====
